---- MODULE Spec2Model ----
(***************************************************************************)
(* Model of audio-logger/src/recorder.rs: the Recorder (record,            *)
(* record_secs, init_writer, create_stream), the audio callback            *)
(* write_input_data and the mode loops batch_recording and                 *)
(* contiguous_recording.                                                   *)
(*                                                                         *)
(* Two threads act: the controller thread, whose position is pc, and the   *)
(* audio-driver thread that runs the callback of a running stream, whose   *)
(* position is cbpc.  They share the writer handle                         *)
(* Arc<Mutex<Option<WavWriter>>>, modelled by lock (the mutex) and writer  *)
(* (the Option: 0 is None, f > 0 is Some(encoder of file f)).              *)
(*                                                                         *)
(* Library behaviour the model relies on:                                  *)
(*   - cpal: dropping a Stream stops it and returns once the callback      *)
(*     thread has finished the callback it is running;                     *)
(*   - hound: WavWriter::finalize consumes the encoder; dropping an        *)
(*     encoder that was not finalized writes its header (implicit          *)
(*     finalize, errors ignored);                                          *)
(*   - Rust: in `*place = value` the value is evaluated before the place,  *)
(*     and a temporary MutexGuard is released at the end of its statement, *)
(*     also when `?` returns early.                                        *)
(***************************************************************************)
EXTENDS Integers, Sequences, FiniteSets, TLC

\* ---------------------------------------------------------------- bounds
\* calls the caller makes on one Recorder
MaxCalls == 2
\* files (segments) one Recorder creates
MaxFiles == 2
\* buffers the driver delivers in one run
MaxBufs == 1
\* samples per delivered buffer
BufLen == 2
\* largest `secs` argument of record_secs / batch_recording
MaxSecs == 1
\* a sleep of 500 ms lasts k * 500 ms for some k in 1..MaxOversleep
MaxOversleep == 1
\* operations that fail in one run (file creation, stream build, stream
\* start, finalize, a sample write)
MaxFaults == 1

\* ------------------------------------------------------ program constants
\* std::thread::sleep(Duration::from_millis(500))
PollMs == 500
\* Duration::as_secs: whole seconds of a duration in milliseconds
MsPerSec == 1000

VARIABLES
    pc,            \* controller thread: position in the running call
    mode,          \* the top-level call running (or the last one that ran)
    secs,          \* its `secs` argument
    result,        \* "none" while running; the Result it returned
    calls,         \* top-level calls made so far
    writer,        \* self.writer: the Option in the mutex (0 = None)
    lock,          \* the mutex: "free", "ctl" (controller), "cb" (callback)
    taken,         \* the encoder take() moved out of the slot (0 = none)
    files,         \* files[f]: [st, data, spec] of the f-th file created
    current_file,  \* self.current_file (0 = "")
    streams,       \* streams[s]: [st, file] of the s-th stream built
    cbpc,          \* callback thread: "idle" or "writing" (holds the lock)
    cbStream,      \* stream whose callback is running (0 = none)
    cbIdx,         \* index of the next sample of the buffer being written
    delivered,     \* buffers the driver has delivered so far
    elapsed,       \* now.elapsed() in ms (record_secs)
    polls,         \* iterations of the wait loop of record_secs
    segStop,       \* interrupt_handles: stop current segment
    batchStop,     \* interrupt_handles: stop batch loop
    failed,        \* samples whose write_sample returned Err
    callFiles,     \* files created by the running call
    segErrs,       \* segments of the running call that returned Err
    faults,        \* operations that have failed so far
    refired,       \* the trigger has fired again with both signals set
    spec           \* self.spec: the hound::WavSpec computed by init

vars == << pc, mode, secs, result, calls, writer, lock, taken, files,
           current_file, streams, cbpc, cbStream, cbIdx, delivered, elapsed,
           polls, segStop, batchStop, failed, callFiles, segErrs, faults,
           refired, spec >>

Modes == {"record", "record_secs", "batch_recording"}
Timed(m) == m \in {"record_secs", "batch_recording"}
LiveStates == {"built", "running", "stopping"}
ClosedStates == {"finalized", "failed", "dropped"}

\* ------------------------------------------------------------- helpers
\* the stream held by the local variable `stream` of the running segment
stream == Len(streams)

Live(s) == streams[s].st \in LiveStates

SetStream(s, st) == [streams EXCEPT ![s].st = st]

SetFile(f, st) == [files EXCEPT ![f].st = st]

\* getters::get_filename: a name not used by an earlier segment
get_filename(n) == n + 1

\* Duration::as_secs
as_secs(ms) == ms \div MsPerSec

\* `now.elapsed().as_secs() >= secs`
TimerExpired(ms, s) == as_secs(ms) >= s

\* Mutex::try_lock: Ok(guard) when free, Err(WouldBlock) otherwise
try_lock(lk) == IF lk = "free" THEN "acquired" ELSE "would_block"

\* mutant: the encoder is left in the slot
take_Leave(slot) == slot

\* Option::take leaves None in the slot
take(slot) == 0

\* input_handling::InterruptHandles::batch_is_running
batch_is_running == ~batchStop

\* input_handling::InterruptHandles::stream_wait returns once stop is requested
stream_wait_returns == segStop

\* get_default_config(&device): the sample format of the device
default_config == [sample_format |-> "I16"]

\* get_user_config(sample_rate, channels, buffer_size)
user_config == [channels |-> 2, sample_rate |-> 44100]

\* getters::get_wav_spec(&default_config, &user_config)
get_wav_spec(dc, uc) ==
    [channels |-> uc.channels, sample_rate |-> uc.sample_rate,
     sample_format |-> dc.sample_format]

\* mutant: the encoder is created with a spec of its own
encoder_spec_Mono(s) == [s EXCEPT !.channels = 1]

\* the spec WavWriter::create(filename, self.spec) is given
encoder_spec(s) == s

\* ---------------------------------------------------------------- Init
Init ==
    /\ pc = "idle" /\ mode = "record" /\ secs = 0 /\ result = "none"
    /\ calls = 0
    /\ writer = 0 /\ lock = "free" /\ taken = 0
    /\ files = << >> /\ current_file = 0
    /\ streams = << >>
    /\ cbpc = "idle" /\ cbStream = 0 /\ cbIdx = 0 /\ delivered = 0
    /\ elapsed = 0 /\ polls = 0
    /\ segStop = FALSE /\ batchStop = FALSE
    /\ failed = {} /\ callFiles = 0 /\ segErrs = 0 /\ faults = 0
    /\ refired = FALSE
    /\ spec = get_wav_spec(default_config, user_config)

\* -------------------------------------------------- the external trigger
\* mutant: a second firing withdraws the stop request
Trigger_Toggle ==
    /\ segStop' = ~segStop /\ batchStop' = ~batchStop
    /\ refired' = (refired \/ (segStop /\ batchStop))
    /\ UNCHANGED << pc, mode, secs, result, calls, writer, lock, taken, files,
                    current_file, streams, cbpc, cbStream, cbIdx, delivered,
                    elapsed, polls, failed, callFiles, segErrs, faults, spec >>

\* the cancellation trigger sets both signals, each time it fires
Trigger ==
    /\ segStop' = TRUE /\ batchStop' = TRUE
    /\ refired' = (refired \/ (segStop /\ batchStop))
    /\ UNCHANGED << pc, mode, secs, result, calls, writer, lock, taken, files,
                    current_file, streams, cbpc, cbStream, cbIdx, delivered,
                    elapsed, polls, failed, callFiles, segErrs, faults, spec >>

\* ------------------------------------------------------------ the caller
ctlFrame == << segStop, batchStop, refired, spec, cbpc, cbStream, cbIdx,
              delivered, failed >>

\* an operation that can fail does so, within the bound on failures
Fault == faults < MaxFaults /\ faults' = faults + 1

NoFault == faults' = faults

Call(m, s) ==
    /\ pc = "idle" /\ calls < MaxCalls
    /\ m # "batch_recording" => Len(files) < MaxFiles
    /\ calls' = calls + 1
    /\ mode' = m /\ secs' = s /\ result' = "none"
    /\ callFiles' = 0 /\ segErrs' = 0
    /\ pc' = IF m = "batch_recording" THEN "batch_check" ELSE "init_writer"
    /\ UNCHANGED << writer, lock, taken, files, current_file, streams,
                    elapsed, polls, faults >>
    /\ UNCHANGED ctlFrame

\* rec.record()
CallRecord == Call("record", 0)

\* contiguous_recording(rec): `rec.record()?; Ok(())`, the result of record
contiguous_recording == CallRecord

CallRecordSecs == \E s \in 0..MaxSecs : Call("record_secs", s)

CallBatch == \E s \in 0..MaxSecs : Call("batch_recording", s)

\* ------------------------------------------------------ batch_recording
\* mutant: the loop tests the signal after the segment (do .. while)
BatchCheck_DoWhile ==
    /\ pc = "batch_check"
    /\ IF batch_is_running \/ callFiles = 0
         THEN /\ Len(files) < MaxFiles
              /\ pc' = "init_writer" /\ result' = "none" /\ secs' = secs
         ELSE pc' = "idle" /\ result' = "Ok" /\ secs' = 0
    /\ UNCHANGED << mode, calls, writer, lock, taken, files,
                    current_file, streams, elapsed, polls, callFiles, segErrs >>
    /\ NoFault
    /\ UNCHANGED ctlFrame

\* `while rec.interrupt_handles.batch_is_running()`; `Ok(())` when it is not.
\* A run is followed up to its MaxFiles-th segment.
BatchCheck ==
    /\ pc = "batch_check"
    /\ IF batch_is_running
         THEN /\ Len(files) < MaxFiles
              /\ pc' = "init_writer" /\ result' = "none" /\ secs' = secs
         ELSE pc' = "idle" /\ result' = "Ok" /\ secs' = 0
    /\ UNCHANGED << mode, calls, writer, lock, taken, files,
                    current_file, streams, elapsed, polls, callFiles, segErrs >>
    /\ NoFault
    /\ UNCHANGED ctlFrame

\* mutant: the loop goes on to the next segment whatever the segment returned
BatchAfterSegment_Continue(r) == "batch_check"

\* `rec.record_secs(secs)?`: where the loop goes after a segment returned r
BatchAfterSegment(r) == IF r = "Ok" THEN "batch_check" ELSE "idle"

\* record / record_secs return r to their caller: the locals of the segment
\* (and, when the call is over, its argument) are gone; batch_recording goes
\* on or returns, any other caller has the result
Return(r) ==
    /\ pc' = IF mode = "batch_recording" THEN BatchAfterSegment(r) ELSE "idle"
    /\ result' = IF pc' = "idle" THEN r ELSE "none"
    /\ segErrs' = IF r = "Err" THEN segErrs + 1 ELSE segErrs
    /\ secs' = IF pc' = "idle" THEN 0 ELSE secs
    /\ elapsed' = 0 /\ polls' = 0

\* ---------------------------------------------------------- init_writer
\* get_filename, current_file, and WavWriter::create(filename, spec)?,
\* evaluated before the lock is taken
InitWriterCreate ==
    /\ pc = "init_writer"
    /\ current_file' = get_filename(Len(files))
    /\ \/ /\ Len(files) < MaxFiles
          /\ files' = Append(files, [st |-> "open", data |-> << >>,
                                     spec |-> encoder_spec(spec)])
          /\ callFiles' = callFiles + 1
          /\ pc' = "install" /\ NoFault
          /\ UNCHANGED << result, segErrs, elapsed, polls, secs >>
       \/ /\ Return("Err") /\ Fault
          /\ UNCHANGED << files, callFiles >>
    /\ UNCHANGED << mode, calls, writer, lock, taken, streams >>
    /\ UNCHANGED ctlFrame

\* mutant: the guard taken by init_writer is kept while the segment runs
InitWriterStore_HoldGuard ==
    /\ pc = "install" /\ lock = "free"
    /\ writer' = Len(files)
    /\ files' = IF writer # 0 /\ files[writer].st = "open"
                  THEN SetFile(writer, "dropped") ELSE files
    /\ lock' = "ctl"
    /\ pc' = "create_stream"
    /\ UNCHANGED << mode, secs, result, calls, taken, current_file,
                    streams, elapsed, polls, callFiles, segErrs >>
    /\ NoFault
    /\ UNCHANGED ctlFrame

\* mutant: an encoder found in the slot is kept, the new one is dropped
InitWriterStore_KeepOld ==
    /\ pc = "install" /\ lock = "free"
    /\ writer' = IF writer # 0 THEN writer ELSE Len(files)
    /\ files' = IF writer # 0 THEN SetFile(Len(files), "dropped") ELSE files
    /\ pc' = "create_stream"
    /\ UNCHANGED << mode, secs, result, calls, lock, taken, current_file,
                    streams, elapsed, polls, callFiles, segErrs >>
    /\ NoFault
    /\ UNCHANGED ctlFrame

\* `*self.writer.lock().unwrap() = Some(encoder)`: the encoder the slot held
\* is dropped, the guard is released at the end of the statement
InitWriterStore ==
    /\ pc = "install" /\ lock = "free"
    /\ writer' = Len(files)
    /\ files' = IF writer # 0 /\ files[writer].st = "open"
                  THEN SetFile(writer, "dropped") ELSE files
    /\ pc' = "create_stream"
    /\ UNCHANGED << mode, secs, result, calls, lock, taken, current_file,
                    streams, elapsed, polls, callFiles, segErrs >>
    /\ NoFault
    /\ UNCHANGED ctlFrame

\* -------------------------------------------------------- create_stream
\* mutant: the stream of the previous segment is set up again and reused
CreateStream_Reuse ==
    /\ pc = "create_stream"
    /\ \/ /\ streams' = IF streams = << >>
                           THEN << [st |-> "built", file |-> current_file] >>
                           ELSE [streams EXCEPT ![stream] =
                                    [st |-> "built", file |-> current_file]]
          /\ pc' = "play" /\ NoFault
          /\ UNCHANGED << result, segErrs, elapsed, polls, secs >>
       \/ /\ Return("Err") /\ Fault
          /\ UNCHANGED streams
    /\ UNCHANGED << mode, calls, writer, lock, taken, files,
                    current_file, callFiles >>
    /\ UNCHANGED ctlFrame

\* build_input_stream(...)?: a new stream whose callback holds a clone of
\* the writer handle
CreateStream ==
    /\ pc = "create_stream"
    /\ \/ /\ streams' = Append(streams, [st |-> "built", file |-> current_file])
          /\ pc' = "play" /\ NoFault
          /\ UNCHANGED << result, segErrs, elapsed, polls, secs >>
       \/ /\ Return("Err") /\ Fault
          /\ UNCHANGED streams
    /\ UNCHANGED << mode, calls, writer, lock, taken, files,
                    current_file, callFiles >>
    /\ UNCHANGED ctlFrame

\* stream.play()?; on Err the local `stream` is dropped by the return.
\* `let now = Instant::now()` follows in record_secs.
Play ==
    /\ pc = "play"
    /\ \/ /\ streams' = SetStream(stream, "running")
          /\ pc' = IF Timed(mode) THEN "poll" ELSE "stream_wait"
          /\ NoFault
          /\ UNCHANGED << result, segErrs, elapsed, polls, secs >>
       \/ /\ streams' = SetStream(stream, "stopped")
          /\ Return("Err") /\ Fault
    /\ UNCHANGED << mode, calls, writer, lock, taken, files,
                    current_file, callFiles >>
    /\ UNCHANGED ctlFrame

\* ------------------------------------------------- the wait of a segment
\* mutant: the segment goes from its wait straight to the finalize statement
AfterWait_NoDrop == "fin_lock"

\* the statement that follows the wait: drop(stream)
AfterWait == "drop"

\* mutant: record does not wait for the stop request
RecordWait_NoWait ==
    /\ pc = "stream_wait"
    /\ pc' = AfterWait
    /\ UNCHANGED << mode, secs, result, calls, writer, lock, taken, files,
                    current_file, streams, elapsed, polls, callFiles, segErrs,
                    faults >>
    /\ UNCHANGED ctlFrame

\* mutant: the wait consumes the stop request it has seen
RecordWait_Consume ==
    /\ pc = "stream_wait"
    /\ stream_wait_returns
    /\ pc' = AfterWait
    /\ segStop' = FALSE
    /\ UNCHANGED << mode, secs, result, calls, writer, lock, taken, files,
                    current_file, streams, elapsed, polls, callFiles, segErrs,
                    faults, batchStop, refired, spec, cbpc, cbStream,
                    cbIdx, delivered, failed >>

\* self.interrupt_handles.stream_wait()
RecordWait ==
    /\ pc = "stream_wait"
    /\ stream_wait_returns
    /\ pc' = AfterWait
    /\ UNCHANGED << mode, secs, result, calls, writer, lock, taken, files,
                    current_file, streams, elapsed, polls, callFiles, segErrs >>
    /\ NoFault
    /\ UNCHANGED ctlFrame

\* mutant: the timer is checked before the sleep (`while elapsed < secs`)
RecordSecsPoll_CheckFirst ==
    /\ pc = "poll"
    /\ IF TimerExpired(elapsed, secs)
         THEN pc' = AfterWait /\ UNCHANGED << elapsed, polls >>
         ELSE /\ \E k \in 1..MaxOversleep : elapsed' = elapsed + k * PollMs
              /\ polls' = polls + 1
              /\ pc' = "poll"
    /\ UNCHANGED << mode, secs, result, calls, writer, lock, taken, files,
                    current_file, streams, callFiles, segErrs >>
    /\ NoFault
    /\ UNCHANGED ctlFrame

\* mutant: the wait loop also ends when the segment-stop signal is set
RecordSecsPoll_StopAware ==
    /\ pc = "poll"
    /\ \E k \in 1..MaxOversleep : elapsed' = elapsed + k * PollMs
    /\ polls' = polls + 1
    /\ pc' = IF TimerExpired(elapsed', secs) \/ segStop THEN AfterWait
                                                       ELSE "poll"
    /\ UNCHANGED << mode, secs, result, calls, writer, lock, taken, files,
                    current_file, streams, callFiles, segErrs >>
    /\ NoFault
    /\ UNCHANGED ctlFrame

\* one iteration of `loop { sleep(500ms); if now.elapsed().as_secs() >= secs
\* { break; } }`
RecordSecsPoll ==
    /\ pc = "poll"
    /\ \E k \in 1..MaxOversleep : elapsed' = elapsed + k * PollMs
    /\ polls' = polls + 1
    /\ pc' = IF TimerExpired(elapsed', secs) THEN AfterWait ELSE "poll"
    /\ UNCHANGED << mode, secs, result, calls, writer, lock, taken, files,
                    current_file, streams, callFiles, segErrs >>
    /\ NoFault
    /\ UNCHANGED ctlFrame

\* ---------------------------------------------------------- drop(stream)
\* mutant: the stream is leaked instead of dropped, so it keeps running
DropStream_Leak ==
    /\ pc = "drop"
    /\ pc' = "fin_lock"
    /\ UNCHANGED << mode, secs, result, calls, writer, lock, taken, files,
                    current_file, streams, elapsed, polls, callFiles, segErrs >>
    /\ NoFault
    /\ UNCHANGED ctlFrame

\* the stream is told to stop: the driver delivers no further buffer
DropStream ==
    /\ pc = "drop"
    /\ streams' = SetStream(stream, "stopping")
    /\ pc' = "join"
    /\ UNCHANGED << mode, secs, result, calls, writer, lock, taken, files,
                    current_file, elapsed, polls, callFiles, segErrs >>
    /\ NoFault
    /\ UNCHANGED ctlFrame

\* drop returns when the callback thread has left its callback
JoinStream ==
    /\ pc = "join"
    /\ cbStream # stream
    /\ streams' = SetStream(stream, "stopped")
    /\ pc' = "fin_lock"
    /\ UNCHANGED << mode, secs, result, calls, writer, lock, taken, files,
                    current_file, elapsed, polls, callFiles, segErrs >>
    /\ NoFault
    /\ UNCHANGED ctlFrame

\* ------------------- self.writer.lock().unwrap().take().unwrap().finalize()?
\* lock().unwrap()
FinLock ==
    /\ pc = "fin_lock" /\ lock = "free"
    /\ lock' = "ctl" /\ pc' = "fin_take"
    /\ UNCHANGED << mode, secs, result, calls, writer, taken, files,
                    current_file, streams, elapsed, polls, callFiles, segErrs >>
    /\ NoFault
    /\ UNCHANGED ctlFrame

\* take().unwrap(): panics on an empty slot (the guard is released by the
\* unwinding)
FinTake ==
    /\ pc = "fin_take"
    /\ IF writer = 0
         THEN /\ pc' = "panic" /\ lock' = "free"
              /\ UNCHANGED << writer, taken >>
         ELSE /\ taken' = writer /\ writer' = take(writer)
              /\ pc' = "fin_finalize" /\ lock' = lock
    /\ UNCHANGED << mode, secs, result, calls, files, current_file, streams,
                    elapsed, polls, callFiles, segErrs >>
    /\ NoFault
    /\ UNCHANGED ctlFrame

\* mutant: the error of finalize is discarded (`finalize().ok()`)
FinFinalize_Masked ==
    /\ pc = "fin_finalize"
    /\ \/ files' = SetFile(taken, "finalized") /\ Return("Ok") /\ NoFault
       \/ files' = SetFile(taken, "failed") /\ Return("Ok") /\ Fault
    /\ taken' = 0 /\ lock' = "free"
    /\ UNCHANGED << mode, calls, writer, current_file, streams,
                    callFiles >>
    /\ UNCHANGED ctlFrame

\* finalize()?: consumes the encoder; Ok or Err, the guard is released
FinFinalize ==
    /\ pc = "fin_finalize"
    /\ \/ files' = SetFile(taken, "finalized") /\ Return("Ok") /\ NoFault
       \/ files' = SetFile(taken, "failed") /\ Return("Err") /\ Fault
    /\ taken' = 0 /\ lock' = "free"
    /\ UNCHANGED << mode, calls, writer, current_file, streams,
                    callFiles >>
    /\ UNCHANGED ctlFrame

\* --------------------------------------------------- write_input_data
\* mutant: the callback takes the lock with a blocking lock()
try_lock_returns_Blocking(lk) == lk = "free"

\* whether the lock attempt of the callback returns in the current state:
\* try_lock always does
try_lock_returns(lk) == TRUE

\* the driver delivers a buffer to a running stream: `if let Ok(mut guard) =
\* writer.try_lock() { if let Some(writer) = guard.as_mut() {`; otherwise the
\* buffer is dropped
CallbackDeliver ==
    /\ cbpc = "idle" /\ delivered < MaxBufs
    /\ \E s \in 1..Len(streams) :
         /\ streams[s].st = "running"
         /\ try_lock_returns(lock)
         /\ delivered' = delivered + 1
         /\ IF try_lock(lock) = "acquired" /\ writer # 0
              THEN /\ lock' = "cb" /\ cbpc' = "writing"
                   /\ cbStream' = s /\ cbIdx' = 1
              ELSE UNCHANGED << lock, cbpc, cbStream, cbIdx >>
    /\ UNCHANGED << pc, mode, secs, result, calls, writer, taken, files,
                    current_file, streams, elapsed, polls, segStop, batchStop,
                    failed, callFiles, segErrs, faults, refired, spec >>

\* the sample the callback is about to write: its stream's segment, the
\* buffer and the position in it
Sample == [seg |-> streams[cbStream].file, buf |-> delivered, idx |-> cbIdx]

\* mutant: the callback takes the encoder out of the slot (`guard.take()`)
\* and drops it after the buffer
CallbackWriteSample_Take ==
    /\ cbpc = "writing"
    /\ \/ /\ files' = [files EXCEPT ![writer].data = Append(@, Sample),
                                     ![writer].st = IF cbIdx = BufLen
                                                      THEN "dropped" ELSE @]
          /\ failed' = failed /\ NoFault
       \/ /\ Fault
          /\ failed' = failed \cup {Sample}
          /\ files' = IF cbIdx = BufLen THEN SetFile(writer, "dropped")
                                        ELSE files
    /\ IF cbIdx = BufLen
         THEN /\ cbpc' = "idle" /\ cbStream' = 0 /\ cbIdx' = 0
              /\ lock' = "free" /\ writer' = 0
         ELSE cbIdx' = cbIdx + 1 /\ UNCHANGED << cbpc, cbStream, lock, writer >>
    /\ UNCHANGED << pc, mode, secs, result, calls, taken,
                    current_file, streams, delivered, elapsed, polls, segStop,
                    batchStop, callFiles, segErrs, refired, spec >>

\* mutant: the first failed write ends the callback (`write_sample(..)?`)
CallbackWriteSample_Abort ==
    /\ cbpc = "writing"
    /\ \/ /\ files' = [files EXCEPT ![writer].data = Append(@, Sample)]
          /\ failed' = failed /\ NoFault
          /\ IF cbIdx = BufLen
               THEN /\ cbpc' = "idle" /\ cbStream' = 0 /\ cbIdx' = 0
                    /\ lock' = "free"
               ELSE cbIdx' = cbIdx + 1 /\ UNCHANGED << cbpc, cbStream, lock >>
       \/ /\ Fault
          /\ failed' = failed \cup {Sample}
          /\ files' = files
          /\ cbpc' = "idle" /\ cbStream' = 0 /\ cbIdx' = 0 /\ lock' = "free"
    /\ UNCHANGED << pc, mode, secs, result, calls, writer, taken,
                    current_file, streams, delivered, elapsed, polls, segStop,
                    batchStop, callFiles, segErrs, refired, spec >>

\* `writer.write_sample(sample).ok()` for the next sample of the buffer; the
\* guard is released after the last one
CallbackWriteSample ==
    /\ cbpc = "writing"
    /\ \/ /\ files' = [files EXCEPT ![writer].data = Append(@, Sample)]
          /\ failed' = failed /\ NoFault
       \/ /\ Fault
          /\ failed' = failed \cup {Sample}
          /\ files' = files
    /\ IF cbIdx = BufLen
         THEN cbpc' = "idle" /\ cbStream' = 0 /\ cbIdx' = 0 /\ lock' = "free"
         ELSE cbIdx' = cbIdx + 1 /\ UNCHANGED << cbpc, cbStream, lock >>
    /\ UNCHANGED << pc, mode, secs, result, calls, writer, taken,
                    current_file, streams, delivered, elapsed, polls, segStop,
                    batchStop, callFiles, segErrs, refired, spec >>

\* ------------------------------------------------------- specification
Controller ==
    \/ BatchCheck
    \/ InitWriterCreate \/ InitWriterStore
    \/ CreateStream \/ Play
    \/ RecordWait \/ RecordSecsPoll
    \/ DropStream \/ JoinStream
    \/ FinLock \/ FinTake \/ FinFinalize

Next ==
    \/ CallRecord
    \/ CallRecordSecs
    \/ CallBatch
    \/ Trigger
    \/ BatchCheck
    \/ InitWriterCreate
    \/ InitWriterStore
    \/ CreateStream
    \/ Play
    \/ RecordWait
    \/ RecordSecsPoll
    \/ DropStream
    \/ JoinStream
    \/ FinLock
    \/ FinTake
    \/ FinFinalize
    \/ CallbackDeliver
    \/ CallbackWriteSample

Spec == Init /\ [][Next]_vars

TypeOK ==
    /\ pc \in {"idle", "batch_check", "init_writer", "install",
               "create_stream", "play", "stream_wait", "poll", "drop", "join",
               "fin_lock", "fin_take", "fin_finalize", "panic"}
    /\ mode \in Modes
    /\ result \in {"none", "Ok", "Err"}
    /\ writer \in 0..Len(files) /\ taken \in 0..Len(files)
    /\ lock \in {"free", "ctl", "cb"}
    /\ cbpc \in {"idle", "writing"}
    /\ Len(streams) <= Len(files)

\* the driver thread and the controller thread both keep running
FairSpec == Spec /\ WF_vars(Controller) /\ WF_vars(CallbackWriteSample)

\* write_input_data(input, &writer) applied to every state of the handle:
\* next to Init, the last call of a run with a running stream whose handle
\* is locked by the controller or holds no encoder
InitAnyHandle ==
    \/ Init
    \/ /\ mode = "record" /\ secs = 0 /\ result = "none"
       /\ calls = MaxCalls
       /\ files = << [st |-> "open", data |-> << >>,
                      spec |-> get_wav_spec(default_config, user_config)] >>
       /\ current_file = 1
       /\ streams = << [st |-> "running", file |-> 1] >>
       /\ \/ lock = "ctl" /\ writer \in {0, 1} /\ pc = "fin_take"
          \/ lock = "free" /\ writer = 0 /\ pc = "stream_wait"
       /\ taken = 0
       /\ cbpc = "idle" /\ cbStream = 0 /\ cbIdx = 0 /\ delivered = 0
       /\ elapsed = 0 /\ polls = 0
       /\ segStop = FALSE /\ batchStop = FALSE
       /\ failed = {} /\ callFiles = 1 /\ segErrs = 0 /\ faults = 0
       /\ refired = FALSE
       /\ spec = get_wav_spec(default_config, user_config)

SpecAnyHandle == InitAnyHandle /\ [][Next]_vars

\* ================================================================ claims
Finalizing == pc \in {"fin_lock", "fin_take", "fin_finalize"}

PastWait == pc \in {"drop", "join"} \/ Finalizing

Closed(f) == files[f].st \in ClosedStates

\* C1: in every segment the stream is torn down before its encoder is
\* removed and finalized: while a stream is live the file of its segment is
\* open and in no one's hands, and the controller is in the finalize
\* statement only with its stream stopped.
C1_TeardownBeforeFinalize ==
    /\ \A s \in 1..Len(streams) :
         Live(s) => files[streams[s].file].st = "open" /\ taken = 0
    /\ Finalizing => streams[stream].st = "stopped"

C1_Witness ==
    \E s \in 1..Len(streams) :
        /\ streams[s].st = "stopped"
        /\ files[streams[s].file].st \in {"finalized", "failed"}
        /\ Len(files[streams[s].file].data) > 0

\* C2: the callback never waits for the lock: whenever the driver has a
\* buffer for a running stream the callback can take its step, whatever the
\* state of the handle, and that one step either starts appending to the
\* installed encoder (lock free, slot full) or drops the buffer and changes
\* nothing.
C2_CanDeliver ==
    (cbpc = "idle" /\ delivered < MaxBufs
        /\ \E s \in 1..Len(streams) : streams[s].st = "running")
    => ENABLED CallbackDeliver

C2_DeliverStep ==
    delivered' # delivered =>
        IF lock = "free" /\ writer # 0
          THEN cbpc' = "writing" /\ lock' = "cb" /\ files' = files
          ELSE UNCHANGED << cbpc, lock, files, writer, pc >>

C2_CallbackNeverWaits ==
    /\ [](C2_CanDeliver /\ (cbpc = "writing" => ENABLED CallbackWriteSample))
    /\ [][C2_DeliverStep]_vars

C2_Witness ==
    /\ delivered > 0 /\ cbpc = "idle" /\ lock = "ctl" /\ failed = {}
    /\ \A f \in 1..Len(files) : files[f].data = << >>

\* C3 (as claimed): in timed mode a poll made with the segment-stop signal
\* set ends the segment.
C3_Original ==
    [][(pc = "poll" /\ segStop /\ polls' = polls + 1) => pc' # "poll"]_vars

\* C3 (amended): in timed mode the wait polls the duration timer alone: it
\* goes on while the elapsed whole seconds are below secs, and the stream is
\* stopped and the file finalized only after a poll at which they are at
\* least secs, with the segment-stop signal set or not.
C3_TimerAlone ==
    /\ (pc = "poll" /\ polls > 0) => ~TimerExpired(elapsed, secs)
    /\ (Timed(mode) /\ PastWait) => (polls > 0 /\ TimerExpired(elapsed, secs))

C3_Witness ==
    /\ mode = "record_secs" /\ secs > 0 /\ segStop
    /\ pc = "drop" /\ polls > 1 /\ elapsed = secs * MsPerSec

\* C4 (as claimed): when batch_recording has returned Ok the slot is empty
\* and every file created is finalized.
C4_Original ==
    (pc = "idle" /\ mode = "batch_recording" /\ result = "Ok")
    => (writer = 0 /\ \A f \in 1..Len(files) : files[f].st # "open")

\* C5: a file holds only samples of the stream of its own segment, in
\* delivery order, and a closed file holds every buffer it holds whole: each
\* sample of the buffer is in the file unless its write failed.
InOrder(a, b) == a.buf < b.buf \/ (a.buf = b.buf /\ a.idx < b.idx)

C6_Original ==
    (pc = "idle" /\ result = "Err")
    => /\ writer = 0 \/ files[writer].st # "open"
       /\ \A s \in 1..Len(streams) : ~Live(s)

\* C7: in batch mode the first segment that returns an error ends
\* batch_recording with that error: once a segment has failed the call has
\* returned Err, so no segment is started and no file created after it.
C7_FirstErrorEndsBatch ==
    (mode = "batch_recording" /\ segErrs > 0)
    => (segErrs = 1 /\ pc = "idle" /\ result = "Err")

C7_Witness ==
    /\ mode = "batch_recording" /\ segErrs = 1 /\ callFiles = 2
    /\ files[1].st = "finalized" /\ files[2].st = "failed"

\* C8: record() creates one file, never tears its stream down while the
\* segment-stop signal is unset, and returns once the signal is set.
C8_Safety ==
    mode = "record" =>
        /\ PastWait => segStop
        /\ callFiles <= 1
        /\ (pc = "idle" /\ result = "Ok") =>
               (segStop /\ callFiles = 1 /\ files[current_file].st = "finalized")

C8_RecordUntilStop ==
    /\ []C8_Safety
    /\ (mode = "record" /\ pc = "stream_wait" /\ segStop) ~> (pc = "idle")

C8_Witness ==
    /\ mode = "record" /\ pc = "idle" /\ result = "Ok"
    /\ Len(files[current_file].data) > 0

\* C9: the slot holds at most one encoder and a live one: an open file is in
\* the slot, or taken out of it for finalize, or created and about to be
\* installed; a write that has the lock appends to the file in the slot,
\* which is the file of its stream's segment; the slot changes only by
\* install and by take, and is empty from take until the next install.
C9_SlotState ==
    /\ writer # 0 => files[writer].st = "open"
    /\ \A f \in 1..Len(files) :
         files[f].st = "open" =>
             \/ f = writer
             \/ f = taken
             \/ pc = "install" /\ f = Len(files)
    /\ cbpc = "writing" =>
         /\ lock = "cb" /\ writer # 0
         /\ writer = streams[cbStream].file
    /\ pc = "fin_finalize" => writer = 0 /\ taken # 0

C9_SlotStep ==
    /\ writer' # writer =>
         \/ pc = "install" /\ writer' = Len(files)
         \/ pc = "fin_take" /\ writer' = 0
    /\ \A f \in 1..Len(files) :
         files'[f].data # files[f].data => (f = writer /\ cbpc = "writing")

C9_OneLiveEncoder == []C9_SlotState /\ [][C9_SlotStep]_vars

C9_Witness ==
    /\ Len(files) = 2 /\ files[1].st = "finalized"
    /\ writer = 2 /\ cbpc = "writing"

\* C10: once the trigger has set the segment-stop and batch-stop signals, no
\* step of the Recorder or of the callback resets either of them.
C10_SignalsStaySet ==
    [][(segStop => segStop') /\ (batchStop => batchStop')]_vars

C10_Witness ==
    /\ segStop /\ batchStop /\ calls = 2 /\ pc = "idle"
    /\ mode = "record" /\ result = "Ok"

\* C11: the stop trigger is idempotent: a firing that finds both signals set
\* changes nothing the Recorder or the callback can read, so the run goes on
\* to the same stream-stop and finalize events and the same final state as
\* after one firing; no encoder is finalized twice (a closed file is never
\* touched again) and the finalize statement never finds the slot empty.
progVars == << pc, mode, secs, result, calls, writer, lock, taken, files,
              current_file, streams, cbpc, cbStream, cbIdx, delivered,
              elapsed, polls, segStop, batchStop, failed, callFiles, segErrs,
              faults, spec >>

C11_RefireStep ==
    /\ refired' # refired => UNCHANGED progVars
    /\ \A f \in 1..Len(files) : Closed(f) => files'[f] = files[f]

C11_TriggerIdempotent ==
    /\ [](pc = "fin_take" => writer # 0)
    /\ [][C11_RefireStep]_vars

C11_Witness ==
    /\ refired /\ mode = "batch_recording" /\ pc = "idle" /\ result = "Ok"
    /\ callFiles = 1 /\ files[Len(files)].st = "finalized"

\* C12: a Recorder is reusable without re-initialisation: after a record()
\* or record_secs() call that returned Ok the slot is empty and no stream is
\* live, and every call installs a fresh encoder (a new, empty, open file
\* under a filename no earlier stream recorded to) and builds a stream of its
\* own for that file, with no earlier stream live.
C12_AfterOk ==
    (pc = "idle" /\ result = "Ok" /\ mode \in {"record", "record_secs"})
    => (writer = 0 /\ taken = 0 /\ \A s \in 1..Len(streams) : ~Live(s))

C12_NewRecordingStep ==
    /\ (pc = "install" /\ pc' = "create_stream") =>
          /\ writer' = Len(files) /\ writer' # writer
          /\ files'[writer'].st = "open" /\ files'[writer'].data = << >>
          /\ current_file' = writer'
          /\ \A s \in 1..Len(streams) : streams[s].file # current_file'
    /\ Len(streams') > Len(streams) =>
          /\ streams'[Len(streams')] = [st |-> "built", file |-> writer]
          /\ \A s \in 1..Len(streams) : ~Live(s)

C12_Reusable == []C12_AfterOk /\ [][C12_NewRecordingStep]_vars

C12_Witness ==
    /\ calls = MaxCalls /\ mode = "record_secs" /\ pc = "idle" /\ result = "Ok"
    /\ Len(files) = calls /\ Len(streams) = calls
    /\ \A f \in 1..Len(files) : files[f].st = "finalized"

\* C13: the WAV spec is computed once, by init, and no later operation
\* changes it: record, record_secs, batch_recording, init_writer and the
\* callback leave it alone, and every encoder of the Recorder, in every
\* segment, is created with it and keeps it.
C13_SpecState ==
    /\ spec = get_wav_spec(default_config, user_config)
    /\ \A f \in 1..Len(files) : files[f].spec = spec

C13_SpecStep ==
    /\ spec' = spec
    /\ \A f \in 1..Len(files) : files'[f].spec = files[f].spec

C13_OneSpec == []C13_SpecState /\ [][C13_SpecStep]_vars

C13_Witness ==
    /\ Len(files) = 2 /\ writer = 2 /\ pc = "create_stream"
    /\ files[1].st = "finalized" /\ Len(files[1].data) > 0
    /\ files[1].spec = spec /\ files[2].spec = spec

\* C14: batch_recording tests the batch-stop signal at each iteration
\* boundary; a test that finds it set starts no segment and returns Ok without
\* creating a file or a stream, so a call made with the signal set creates
\* none at all; a call that returned Ok has seen the signal set; and once the
\* signal is set the call returns: Ok, or the error of the segment in flight.
C14_BoundaryStep ==
    (pc = "batch_check" /\ batchStop /\ pc' # pc) =>
        /\ pc' = "idle" /\ result' = "Ok"
        /\ UNCHANGED << files, streams, writer, current_file, callFiles >>

C14_ReturnedOk ==
    (mode = "batch_recording" /\ pc = "idle" /\ result = "Ok") =>
        (batchStop /\ segErrs = 0)

StreamRank == [built |-> 0, running |-> 1, stopping |-> 2, stopped |-> 3]

C15_StreamState ==
    /\ \A s \in 1..Len(streams) : Live(s) => s = stream
    /\ \A s \in 1..Len(streams) : \A r \in 1..Len(streams) :
           (streams[s].file = streams[r].file) => s = r
    /\ pc \in {"play", "stream_wait", "poll", "drop", "join"} =>
           (streams # << >> /\ Live(stream) /\ streams[stream].file = writer)
    /\ pc \in {"idle", "batch_check", "init_writer", "install",
                "create_stream"} => \A s \in 1..Len(streams) : ~Live(s)
    /\ cbStream # 0 => Live(cbStream)

C15_StreamStep ==
    /\ \A s \in 1..Len(streams) :
         /\ StreamRank[streams'[s].st] >= StreamRank[streams[s].st]
         /\ streams'[s].file = streams[s].file
         /\ streams[s].st = "stopped" => streams'[s] = streams[s]
    /\ (pc = "create_stream" /\ pc' = "play") =>
         /\ Len(streams') = Len(streams) + 1
         /\ streams'[Len(streams')].st = "built"
    /\ Len(streams') # Len(streams) => pc = "create_stream"

C15_StreamLifecycle == []C15_StreamState /\ [][C15_StreamStep]_vars

C15_Witness ==
    /\ mode = "batch_recording" /\ Len(streams) = 2
    /\ streams[1].st = "stopped" /\ streams[2].st = "running"
    /\ files[1].st = "finalized"

\* C16: a failed write of a sample is swallowed by the callback: the step in
\* which it fails leaves the controller, the slot, the files and the streams
\* as they are and moves on to the next sample exactly as a successful write
\* does; every later sample of the buffer is still written (or fails on its
\* own), later buffers can still be delivered; and as long as nothing but
\* sample writes has failed, no call has returned an error.
C16_Rest(x, k) == [seg |-> x.seg, buf |-> x.buf, idx |-> k]

C16_SwallowedState ==
    /\ \A x \in failed : \A k \in (x.idx + 1)..BufLen :
          \/ cbpc = "writing" /\ delivered = x.buf /\ cbIdx <= k
          \/ C16_Rest(x, k) \in failed
          \/ \E i \in 1..Len(files[x.seg].data) :
                files[x.seg].data[i] = C16_Rest(x, k)
    /\ (failed # {} /\ faults = Cardinality(failed)) =>
          (result # "Err" /\ segErrs = 0 /\ pc # "panic")
    /\ (failed # {} /\ cbpc = "idle" /\ delivered < MaxBufs
           /\ \E s \in 1..Len(streams) : streams[s].st = "running")
          => ENABLED CallbackDeliver

C16_SwallowedStep ==
    failed' # failed =>
        /\ UNCHANGED << pc, mode, secs, result, calls, writer, taken, files,
                        current_file, streams, delivered, segErrs, callFiles >>
        /\ IF cbIdx < BufLen
             THEN cbpc' = "writing" /\ cbIdx' = cbIdx + 1 /\ lock' = "cb"
             ELSE cbpc' = "idle" /\ lock' = "free"

C17_FailStep ==
    (pc = "fin_finalize" /\ files'[taken].st = "failed") =>
        /\ pc' = "idle" /\ result' = "Err" /\ segErrs' = segErrs + 1
        /\ streams[stream].st = "stopped" /\ streams' = streams
        /\ writer = 0 /\ writer' = 0 /\ taken' = 0 /\ lock' = "free"

C17_AfterFail ==
    (pc = "idle" /\ result = "Err" /\ current_file \in 1..Len(files)
        /\ files[current_file].st = "failed")
    => (writer = 0 /\ taken = 0 /\ \A s \in 1..Len(streams) : ~Live(s))

C17_FinalizeErrorReturned == []C17_AfterFail /\ [][C17_FailStep]_vars

C17_Witness ==
    /\ pc = "idle" /\ result = "Err" /\ mode = "record" /\ segStop
    /\ Len(files) = 1 /\ Len(streams) = 1 /\ current_file = 1
    /\ files[1].st = "failed" /\ Len(files[1].data) > 0
    /\ writer = 0 /\ lock = "free" /\ streams[1].st = "stopped"

\* C18: while a stream is live the controller does not hold the lock and the
\* slot holds the open encoder of that stream's segment: the controller takes
\* the lock in init_writer, with no stream live, and in the finalize
\* statement, with its stream stopped; so every buffer the driver delivers is
\* accepted by the callback, none is dropped for contention with the
\* controller or for an empty slot.
C18_LiveState ==
    \A s \in 1..Len(streams) :
        Live(s) => /\ lock # "ctl"
                   /\ writer # 0 /\ writer = streams[s].file
                   /\ files[writer].st = "open"

C18_LockStep ==
    /\ delivered' # delivered => (cbpc' = "writing" /\ lock' = "cb")
    /\ (pc = "install" /\ pc' # pc) => \A s \in 1..Len(streams) : ~Live(s)
    /\ (lock' = "ctl" /\ lock # "ctl") =>
          (pc = "fin_lock" /\ \A s \in 1..Len(streams) : ~Live(s))

C18_NoDropWhileLive == []C18_LiveState /\ [][C18_LockStep]_vars

C18_Witness ==
    /\ pc \in {"stream_wait", "poll"} /\ Len(files) = 1 /\ writer = 1
    /\ streams[stream].st = "running" /\ cbpc = "idle" /\ lock = "free"
    /\ delivered = MaxBufs /\ failed = {}
    /\ Len(files[1].data) = delivered * BufLen

\* C19: take().unwrap() never finds the slot empty: whenever a call reaches
\* its finalize statement the slot holds the encoder init_writer installed in
\* that call (the newest file, open, under the current filename, the file of
\* the call's stream), whatever earlier calls left behind; only the
\* controller, at take(), empties the slot, and no step of the callback
\* changes which encoder the slot holds.
C19_AtFinalize ==
    /\ pc \in {"fin_lock", "fin_take"} =>
          /\ writer # 0 /\ writer = Len(files) /\ writer = current_file
          /\ writer = streams[stream].file
          /\ files[writer].st = "open" /\ callFiles > 0
    /\ pc # "panic"

C19_SlotOwnerStep ==
    /\ (writer # 0 /\ writer' = 0) => (pc = "fin_take" /\ pc' = "fin_finalize")
    /\ (cbpc' # cbpc \/ cbIdx' # cbIdx) => writer' = writer

C19_TakeFindsEncoder == []C19_AtFinalize /\ [][C19_SlotOwnerStep]_vars

C19_Witness ==
    /\ pc = "fin_take" /\ calls = 2 /\ Len(files) = 2 /\ writer = 2
    /\ files[1].st = "dropped" /\ Len(files[2].data) > 0

\* C20: record_secs(secs) keeps its stream running through the wait loop,
\* which sleeps one poll interval before each check of the timer: the stream
\* is stopped at the first poll at which at least secs seconds have elapsed,
\* never before the first poll, so record_secs(0) records for one poll
\* interval; with sleeps of exactly 500 ms the loop makes max(1, 2 * secs)
\* polls.
PollsPerSec == MsPerSec \div PollMs

C20_Max(a, b) == IF a >= b THEN a ELSE b

C20_WaitState ==
    /\ pc = "poll" => (streams[stream].st = "running" /\ Timed(mode))
    /\ (pc = "poll" /\ polls > 0) => elapsed < secs * MsPerSec
    /\ (Timed(mode) /\ PastWait) =>
          /\ polls >= 1 /\ elapsed >= PollMs
          /\ elapsed >= secs * MsPerSec
          /\ elapsed = polls * PollMs => polls = C20_Max(1, PollsPerSec * secs)

C20_PollStep ==
    pc = "poll" =>
        /\ pc' # "poll" =>
              /\ pc' = "drop" /\ polls' = polls + 1
              /\ elapsed' >= elapsed + PollMs
              /\ elapsed' >= secs * MsPerSec
              /\ streams' = streams
        /\ streams'[stream].st = "running"

C20_TimedWait == []C20_WaitState /\ [][C20_PollStep]_vars

C20_Witness ==
    /\ mode = "record_secs" /\ secs = 0 /\ pc = "fin_lock"
    /\ polls = 1 /\ elapsed = PollMs
    /\ Len(files[writer].data) = BufLen

====
